---- MODULE Spec2Model ----
(***************************************************************************)
(* Model of system_monitor.py: the e-Paper status monitor.                 *)
(*                                                                         *)
(*   Spec      main(): INIT, the minute-aligned monitoring loop, the       *)
(*             KeyboardInterrupt handler and the catch-all handler, with   *)
(*             render_display() called from it.                            *)
(*   SpecCalc  calculate_deltas() and update_smart_history() applied to    *)
(*             bounded histories and samples.                              *)
(*                                                                         *)
(* Python values: a dict is a function whose DOMAIN is its key set, None   *)
(* is the record None, an int that may also be None is wrapped by PyInt.   *)
(***************************************************************************)
EXTENDS Integers, FiniteSets, Sequences, TLC

VARIABLES
    pc,                  \* position of the process in main()
    epd,                 \* "unbound" until line 320 has assigned the local epd
    update_count,        \* main(): update_count
    now,                 \* wall clock, whole seconds since midnight of day 0
    smart_stats_history, \* module global: dict hour -> stats
    recorded_at,         \* per bucket, the absolute hour in which it was written
    smart_stats,         \* render_display(): smart_stats of the last cycle
    current_hour,        \* render_display(): current_hour of the last cycle
    load_delta,          \* render_display(): load_delta of the last cycle
    start_delta,         \* render_display(): start_delta of the last cycle
    baseline,            \* which bucket the last lookup used, and its age
    use_partial,         \* render_display() argument
    set_base,            \* render_display() argument
    panel,               \* state of the display behind the adapter
    calls,               \* the last CallWindow adapter calls, oldest first
    handler_calls,       \* adapter calls made by the KeyboardInterrupt handler
    interrupts,          \* number of interrupt signals delivered
    slow_cycles,         \* number of sampling phases that took SlowSample
    trap,                \* where the first interrupt and the error were raised
    tick,                \* number of the current loop iteration, from 1
    woke,                \* wall clock at the end of the last inter-tick sleep
    writes               \* tick and mode of the last panel write, full ticks

vars == << pc, epd, update_count, now, smart_stats_history, recorded_at,
           smart_stats, current_hour, load_delta, start_delta, baseline,
           use_partial, set_base, panel, calls, handler_calls, interrupts,
           slow_cycles, trap, tick, woke, writes >>

---------------------------------------------------------------------------
(* Bounds of the model *)

MaxTicks == 123
MaxInterrupts == 2
MaxSlow == 1
FastSample == 2
SlowSample == 62
CallWindow == 4
MaxPopulated == 2
SmartCycles == 4

(* Program constants *)

FullRefreshEvery == 60
max_hours_back == 24
HoursPerDay == 24
SecondsPerMinute == 60
GuardOffset == 1
ClearSleep == 1
BaseSleep == 2

---------------------------------------------------------------------------
(* Python values *)

None == [none |-> TRUE]

PyInt(n) == [int |-> n]

EmptyDict == [k \in {} |-> 0]

Truthy(d) == d # None /\ DOMAIN d # {}

Get(d, k, default) == IF k \in DOMAIN d THEN d[k] ELSE default

Hours == 0 .. (HoursPerDay - 1)

\* datetime.now().hour (line 214) of the wall clock t
Hour(t) == (t \div 3600) % HoursPerDay

\* the hour of t counted from midnight of day 0 (day * 24 + hour)
AbsHour(t) == t \div 3600

---------------------------------------------------------------------------
(* update_smart_history and calculate_deltas, lines 164-198 *)

\* update_smart_history that fills only an empty bucket
update_smart_history_keep(stats, hour) ==
    IF Truthy(stats) /\ hour \notin DOMAIN smart_stats_history
    THEN [h \in (DOMAIN smart_stats_history) \cup {hour} |->
             IF h = hour THEN stats ELSE smart_stats_history[h]]
    ELSE smart_stats_history

\* lines 164-167: the history after update_smart_history(stats, hour)
update_smart_history(stats, hour) ==
    IF Truthy(stats)
    THEN [h \in (DOMAIN smart_stats_history) \cup {hour} |->
             IF h = hour THEN stats ELSE smart_stats_history[h]]
    ELSE smart_stats_history

\* the bookkeeping of the absolute hour of each write, beside line 167
StampBucket(stats, hour, t) ==
    IF Truthy(stats)
    THEN [h \in (DOMAIN recorded_at) \cup {hour} |->
             IF h = hour THEN AbsHour(t) ELSE recorded_at[h]]
    ELSE recorded_at

NoHour == 0 - 1

\* no inter-tick sleep has ended yet
NoTime == 0 - 1

\* ScanBack over range(1, max_hours_back - 1), one hour short
RECURSIVE ScanBack_short(_, _, _)
ScanBack_short(i, oldest_hour, current_hour_) ==
    IF i >= max_hours_back - 1
    THEN oldest_hour
    ELSE LET check_hour == (current_hour_ - i) % 24
         IN  ScanBack_short(i + 1,
                            IF check_hour \in DOMAIN smart_stats_history
                            THEN check_hour ELSE oldest_hour,
                            current_hour_)

\* lines 183-186: the loop for i in range(1, max_hours_back), from step i on,
\* oldest_hour being the candidate found so far
RECURSIVE ScanBack(_, _, _)
ScanBack(i, oldest_hour, current_hour_) ==
    IF i >= max_hours_back
    THEN oldest_hour
    ELSE LET check_hour == (current_hour_ - i) % 24
         IN  ScanBack(i + 1,
                      IF check_hour \in DOMAIN smart_stats_history
                      THEN check_hour ELSE oldest_hour,
                      current_hour_)

\* BaselineHour with the scan stopping at the first populated bucket it meets
RECURSIVE ScanNearest(_, _)
ScanNearest(i, current_hour_) ==
    IF i >= max_hours_back
    THEN NoHour
    ELSE IF (current_hour_ - i) % 24 \in DOMAIN smart_stats_history
         THEN (current_hour_ - i) % 24
         ELSE ScanNearest(i + 1, current_hour_)

BaselineHour_nearest(current_hour_) ==
    IF current_hour_ \in DOMAIN smart_stats_history
    THEN current_hour_
    ELSE ScanNearest(1, current_hour_)

\* BaselineHour without the preference for the bucket of the current hour
BaselineHour_scan_only(current_hour_) == ScanBack(1, NoHour, current_hour_)

\* lines 177-191: the bucket whose stats become prev_stats, NoHour if none
BaselineHour(current_hour_) ==
    IF current_hour_ \in DOMAIN smart_stats_history
    THEN current_hour_
    ELSE ScanBack(1, NoHour, current_hour_)

\* calculate_deltas without the test of an empty history, an absent baseline
\* being read as a dict without keys
calculate_deltas_unguarded(current_stats, current_hour_) ==
    IF ~Truthy(current_stats)
    THEN << None, None >>
    ELSE LET b == BaselineHour(current_hour_)
             prev_stats == IF b = NoHour THEN EmptyDict
                           ELSE smart_stats_history[b]
         IN  << PyInt(Get(current_stats, "Load_Cycle_Count", 0)
                        - Get(prev_stats, "Load_Cycle_Count", 0)),
                PyInt(Get(current_stats, "Start_Stop_Count", 0)
                        - Get(prev_stats, "Start_Stop_Count", 0)) >>

\* calculate_deltas with the differences clamped at 0
ClampAtZero(n) == IF n < 0 THEN 0 ELSE n

calculate_deltas_clamped(current_stats, current_hour_) ==
    IF ~Truthy(current_stats) \/ DOMAIN smart_stats_history = {}
    THEN << None, None >>
    ELSE LET b == BaselineHour(current_hour_)
         IN  IF b = NoHour
             THEN << None, None >>
             ELSE LET prev_stats == smart_stats_history[b]
                  IN  << PyInt(ClampAtZero(
                                 Get(current_stats, "Load_Cycle_Count", 0)
                                 - Get(prev_stats, "Load_Cycle_Count", 0))),
                         PyInt(ClampAtZero(
                                 Get(current_stats, "Start_Stop_Count", 0)
                                 - Get(prev_stats, "Start_Stop_Count", 0))) >>

\* lines 170-198: the pair (load_delta, start_delta)
calculate_deltas(current_stats, current_hour_) ==
    IF ~Truthy(current_stats) \/ DOMAIN smart_stats_history = {}
    THEN << None, None >>
    ELSE LET b == BaselineHour(current_hour_)
         IN  IF b = NoHour
             THEN << None, None >>
             ELSE LET prev_stats == smart_stats_history[b]
                  IN  << PyInt(Get(current_stats, "Load_Cycle_Count", 0)
                                 - Get(prev_stats, "Load_Cycle_Count", 0)),
                         PyInt(Get(current_stats, "Start_Stop_Count", 0)
                                 - Get(prev_stats, "Start_Stop_Count", 0)) >>

\* which bucket the lookup of calculate_deltas read, and when it was written
LookupInfo(current_stats, current_hour_, t) ==
    LET b == IF ~Truthy(current_stats) \/ DOMAIN smart_stats_history = {}
             THEN NoHour ELSE BaselineHour(current_hour_)
    IN  [hour |-> b,
         written |-> IF b = NoHour THEN NoHour ELSE recorded_at[b],
         looked_up |-> AbsHour(t),
         populated |-> DOMAIN smart_stats_history]

---------------------------------------------------------------------------
(* The display adapter (epd2in13_V4, epdconfig) as main() drives it *)

BlankPanel == [ctrl |-> "off", content |-> "unknown", write |-> "none",
               smart |-> << >>, released |-> FALSE]

epd_init(p) == [p EXCEPT !.ctrl = "init"]

epd_init_fast(p) == [p EXCEPT !.ctrl = "init_fast"]

epd_Clear(p) == [p EXCEPT !.content = "blank", !.smart = << >>]

epd_sleep(p) == [p EXCEPT !.ctrl = "sleep"]

module_exit(p) == [p EXCEPT !.released = TRUE]

\* SmartLines without the test of smart_stats at line 275
SmartLines_always(stats, ld, sd) ==
    << IF ld # None THEN [text |-> "LdCyc: ", int |-> ld.int]
                    ELSE [text |-> "LdCyc: --"],
       IF sd # None THEN [text |-> "StStp:  ", int |-> sd.int]
                    ELSE [text |-> "StStp: --"],
       [text |-> "Htlh: ",
        ints |-> << Get(stats, "Reallocated_Sector_Ct", 0),
                    Get(stats, "Current_Pending_Sector", 0),
                    Get(stats, "Offline_Uncorrectable", 0),
                    Get(stats, "UDMA_CRC_Error_Count", 0) >>] >>

\* lines 274-300: the SMART part of the image
SmartLines(stats, ld, sd) ==
    IF Truthy(stats)
    THEN << IF ld # None THEN [text |-> "LdCyc: ", int |-> ld.int]
                         ELSE [text |-> "LdCyc: --"],
            IF sd # None THEN [text |-> "StStp:  ", int |-> sd.int]
                         ELSE [text |-> "StStp: --"],
            [text |-> "Htlh: ",
             ints |-> << Get(stats, "Reallocated_Sector_Ct", 0),
                         Get(stats, "Current_Pending_Sector", 0),
                         Get(stats, "Offline_Uncorrectable", 0),
                         Get(stats, "UDMA_CRC_Error_Count", 0) >>] >>
    ELSE << [text |-> "SMART N/A"] >>

\* WritePath without the set_base branch of line 307
WritePath_nobase(use_partial_, set_base_) ==
    IF use_partial_ THEN "partial" ELSE "full"

\* lines 305-313: which write path render_display takes
WritePath(use_partial_, set_base_) ==
    IF set_base_ THEN "base"
    ELSE IF use_partial_ THEN "partial"
    ELSE "full"

\* lines 306-313: the panel after the write of the image
epd_write(p, path, lines) ==
    [p EXCEPT !.content = "image", !.write = path, !.smart = lines]

\* the window of the last CallWindow adapter calls
Push(log, c) ==
    IF Len(log) < CallWindow THEN Append(log, c) ELSE Append(Tail(log), c)

WriteCall(path) ==
    IF path = "base" THEN "displayPartBaseImage"
    ELSE IF path = "partial" THEN "displayPartial"
    ELSE "display"

---------------------------------------------------------------------------
(* The SMART source: what get_smart_stats can return (lines 119-161) *)

StatsA == [Load_Cycle_Count |-> 5, Start_Stop_Count |-> 2,
           Reallocated_Sector_Ct |-> 0, Current_Pending_Sector |-> 0,
           Offline_Uncorrectable |-> 0, UDMA_CRC_Error_Count |-> 1]

StatsB == [Load_Cycle_Count |-> 7, Reallocated_Sector_Ct |-> 1]

StatsC == [Reallocated_Sector_Ct |-> 3]

SmartSamples == { None, EmptyDict, StatsA, StatsB }

\* a start time for which the first iteration of the loop begins at second
\* `first` of a minute when the base render samples fast
EdgeStart(first) ==
    10 * 3600 + 20 * 60
        + ((first - ClearSleep - FastSample - BaseSleep) % SecondsPerMinute)

\* the process starts shortly before midnight, or in a morning hour so that
\* the loop begins on a minute boundary or one second before one
StartNows == { 23 * 3600 + 58 * 60 + 50, EdgeStart(0), EdgeStart(59) }

---------------------------------------------------------------------------
(* main(), lines 316-369 *)

\* FullDue counting the iteration about to run
FullDue_early(count) == (count + 1) % FullRefreshEvery = 0

\* FullDue without the modulo
FullDue_sticky(count) == count >= FullRefreshEvery

\* line 348: the test that selects the periodic full refresh
FullDue(count) == count % FullRefreshEvery = 0 /\ count > 0

\* sleep_time as a flat sleep of one minute
sleep_time_flat(t) == SecondsPerMinute

\* lines 342-345: the argument of time.sleep, for a loop iteration starting at t
sleep_time(t) == (SecondsPerMinute - (t % SecondsPerMinute)) + GuardOffset

\* the positions inside the try block of main(), lines 318-357
TryPcs == { "construct", "init", "clear", "fonts", "render_sample",
            "render_draw", "full_fast", "loop_sleep", "loop_check" }

\* the positions inside the KeyboardInterrupt handler, lines 359-364
HandlerPcs == { "h_init", "h_clear", "h_sleep", "h_exit" }

\* the positions at which the process has ended
EndPcs == { "exit_clean", "exit_error", "uncaught" }

\* the positions whose adapter, font or image calls can raise
RaisingPcs == { "construct", "init", "clear", "fonts", "render_draw",
                "full_fast" }

LoopVars == << update_count, tick, woke >>
RenderVars == << smart_stats, current_hour, load_delta, start_delta, baseline,
                 smart_stats_history, recorded_at >>
ExitVars == << handler_calls, interrupts, trap >>

Init ==
    /\ pc = "construct"
    /\ epd = "unbound"
    /\ update_count = 0
    /\ now \in StartNows
    /\ smart_stats_history = [h \in {} |-> None]
    /\ recorded_at = [h \in {} |-> 0]
    /\ smart_stats = None
    /\ current_hour = NoHour
    /\ load_delta = None
    /\ start_delta = None
    /\ baseline = [hour |-> NoHour, written |-> NoHour, looked_up |-> NoHour,
                   populated |-> {}]
    /\ use_partial = TRUE
    /\ set_base = FALSE
    /\ panel = BlankPanel
    /\ calls = << >>
    /\ handler_calls = << >>
    /\ interrupts = 0
    /\ slow_cycles = 0
    /\ trap = [interrupted_at |-> "none", raised_at |-> "none"]
    /\ tick = 0
    /\ woke = NoTime
    /\ writes = [tick |-> 0, mode |-> "none", prev_full |-> 0, last_full |-> 0]

\* lines 319-320: epd = epd2in13_V4.EPD()
Construct ==
    /\ pc = "construct"
    /\ epd' = "bound"
    /\ pc' = "init"
    /\ UNCHANGED << now, panel, calls, use_partial, set_base, slow_cycles,
                    writes >>
    /\ UNCHANGED LoopVars /\ UNCHANGED RenderVars /\ UNCHANGED ExitVars

\* line 324: epd.init()
InitPanel ==
    /\ pc = "init"
    /\ panel' = epd_init(panel)
    /\ calls' = Push(calls, "init")
    /\ pc' = "clear"
    /\ UNCHANGED << epd, now, use_partial, set_base, slow_cycles, writes >>
    /\ UNCHANGED LoopVars /\ UNCHANGED RenderVars /\ UNCHANGED ExitVars

\* lines 325-326: epd.Clear(0xFF); time.sleep(1)
InitialClear ==
    /\ pc = "clear"
    /\ panel' = epd_Clear(panel)
    /\ calls' = Push(calls, "Clear")
    /\ now' = now + ClearSleep
    /\ pc' = "fonts"
    /\ UNCHANGED << epd, use_partial, set_base, slow_cycles, writes >>
    /\ UNCHANGED LoopVars /\ UNCHANGED RenderVars /\ UNCHANGED ExitVars

\* lines 329-334: the fonts are loaded and render_display is entered with
\* use_partial=False, set_base=True
LoadFonts ==
    /\ pc = "fonts"
    /\ use_partial' = FALSE
    /\ set_base' = TRUE
    /\ pc' = "render_sample"
    /\ UNCHANGED << epd, now, panel, calls, slow_cycles, writes >>
    /\ UNCHANGED LoopVars /\ UNCHANGED RenderVars /\ UNCHANGED ExitVars

\* AfterSample with get_smart_stats letting its failure propagate
AfterSample_raising(stats) ==
    IF stats = None THEN "except_exc" ELSE "render_draw"

\* lines 126-161, 206-211: every sampler catches its own exceptions, so
\* render_display goes on to the image whatever get_smart_stats returned
AfterSample(stats) == "render_draw"

\* render_deltas with the history updated before the lookup: the lookup then
\* finds the sample of this cycle in the bucket of the current hour
render_deltas_after_record(stats, hour) ==
    IF Truthy(stats)
    THEN << PyInt(Get(stats, "Load_Cycle_Count", 0)
                    - Get(stats, "Load_Cycle_Count", 0)),
            PyInt(Get(stats, "Start_Stop_Count", 0)
                    - Get(stats, "Start_Stop_Count", 0)) >>
    ELSE << None, None >>

\* lines 213-215: the deltas of the cycle, looked up in the history as it
\* stands at line 215, before line 219 records the sample
render_deltas(stats, hour) == calculate_deltas(stats, hour)

\* lines 204-219: the samples are taken (stats is what get_smart_stats
\* returns, d the seconds the sampling takes), the deltas are computed and
\* the history is updated
RenderSample(stats, d) ==
    /\ pc = "render_sample"
    /\ now' = now + d
    /\ slow_cycles' = IF d = SlowSample THEN slow_cycles + 1 ELSE slow_cycles
    /\ smart_stats' = stats
    /\ current_hour' = Hour(now')
    /\ load_delta' = render_deltas(stats, Hour(now'))[1]
    /\ start_delta' = render_deltas(stats, Hour(now'))[2]
    /\ baseline' = LookupInfo(stats, Hour(now'), now')
    /\ smart_stats_history' =
           IF Truthy(stats)
           THEN update_smart_history(stats, Hour(now'))
           ELSE smart_stats_history
    /\ recorded_at' = StampBucket(stats, Hour(now'), now')
    /\ pc' = AfterSample(stats)
    /\ UNCHANGED << epd, panel, calls, use_partial, set_base, writes >>
    /\ UNCHANGED LoopVars /\ UNCHANGED ExitVars

\* lines 221-313, then what main() does after render_display returns:
\* line 335-339 after the base image, line 352 after a full draw, line 357
\* after a partial draw
RenderDraw ==
    /\ pc = "render_draw"
    /\ LET path == WritePath(use_partial, set_base)
       IN  /\ panel' = epd_write(panel, path,
                                 SmartLines(smart_stats, load_delta, start_delta))
           /\ calls' = Push(calls, WriteCall(path))
           /\ writes' = [tick |-> tick, mode |-> path,
                         prev_full |-> IF path = "full" THEN writes.last_full
                                       ELSE writes.prev_full,
                         last_full |-> IF path = "full" THEN tick
                                       ELSE writes.last_full]
           /\ now' = IF path = "base" THEN now + BaseSleep ELSE now
           /\ update_count' = IF path = "base" THEN 0
                              ELSE IF path = "partial" THEN update_count + 1
                              ELSE update_count
           /\ pc' = IF path = "full" THEN "full_fast" ELSE "loop_sleep"
    /\ UNCHANGED << epd, use_partial, set_base, slow_cycles, tick, woke >>
    /\ UNCHANGED RenderVars /\ UNCHANGED ExitVars

\* lines 342-345: sleep to one second past the next minute boundary
Sleep ==
    /\ pc = "loop_sleep"
    /\ update_count < MaxTicks
    /\ now' = now + sleep_time(now)
    /\ woke' = now'
    /\ tick' = tick + 1
    /\ pc' = "loop_check"
    /\ UNCHANGED << epd, update_count, panel, calls, use_partial, set_base,
                    slow_cycles, writes >>
    /\ UNCHANGED RenderVars /\ UNCHANGED ExitVars

\* lines 348, 353-355: the partial branch enters render_display
PartialTick ==
    /\ pc = "loop_check"
    /\ ~FullDue(update_count)
    /\ use_partial' = TRUE
    /\ set_base' = FALSE
    /\ pc' = "render_sample"
    /\ UNCHANGED << epd, now, panel, calls, slow_cycles, writes >>
    /\ UNCHANGED LoopVars /\ UNCHANGED RenderVars /\ UNCHANGED ExitVars

\* lines 348-351: the full branch calls epd.init() and enters render_display
FullTick ==
    /\ pc = "loop_check"
    /\ FullDue(update_count)
    /\ panel' = epd_init(panel)
    /\ calls' = Push(calls, "init")
    /\ use_partial' = FALSE
    /\ set_base' = FALSE
    /\ pc' = "render_sample"
    /\ UNCHANGED << epd, now, slow_cycles, writes >>
    /\ UNCHANGED LoopVars /\ UNCHANGED RenderVars /\ UNCHANGED ExitVars

\* FullFast without the call of epd.init_fast()
FullFast_missing ==
    /\ pc = "full_fast"
    /\ update_count' = update_count + 1
    /\ pc' = "loop_sleep"
    /\ UNCHANGED << epd, now, use_partial, set_base, slow_cycles, tick,
                    woke, writes, panel, calls >>
    /\ UNCHANGED RenderVars /\ UNCHANGED ExitVars

\* lines 352, 357: epd.init_fast(); update_count += 1
FullFast ==
    /\ pc = "full_fast"
    /\ panel' = epd_init_fast(panel)
    /\ calls' = Push(calls, "init_fast")
    /\ update_count' = update_count + 1
    /\ pc' = "loop_sleep"
    /\ UNCHANGED << epd, now, use_partial, set_base, slow_cycles, tick,
                    woke, writes >>
    /\ UNCHANGED RenderVars /\ UNCHANGED ExitVars

\* the interrupt signal raises KeyboardInterrupt in the running statement:
\* inside the try block it is caught at line 359, inside either handler it
\* leaves main()
Interrupt ==
    /\ pc \in TryPcs \cup HandlerPcs \cup { "except_exc" }
    /\ interrupts < MaxInterrupts
    /\ interrupts' = interrupts + 1
    /\ pc' = IF pc \in TryPcs THEN "h_init" ELSE "uncaught"
    /\ trap' = IF interrupts = 0 THEN [trap EXCEPT !.interrupted_at = pc]
               ELSE trap
    /\ UNCHANGED << epd, now, panel, calls, use_partial, set_base, slow_cycles,
                    writes, handler_calls >>
    /\ UNCHANGED LoopVars /\ UNCHANGED RenderVars

\* lines 360-361: epd.init(); the name epd is unbound if line 320 did not
\* complete, and the UnboundLocalError leaves main()
HandlerInit ==
    /\ pc = "h_init"
    /\ IF epd = "unbound"
       THEN /\ pc' = "uncaught"
            /\ UNCHANGED << panel, calls, handler_calls >>
       ELSE /\ panel' = epd_init(panel)
            /\ calls' = Push(calls, "init")
            /\ handler_calls' = Append(handler_calls, "init")
            /\ pc' = "h_clear"
    /\ UNCHANGED << epd, now, use_partial, set_base, slow_cycles, writes,
                    interrupts, trap >>
    /\ UNCHANGED LoopVars /\ UNCHANGED RenderVars

\* line 362: epd.Clear(0xFF)
HandlerClear ==
    /\ pc = "h_clear"
    /\ panel' = epd_Clear(panel)
    /\ calls' = Push(calls, "Clear")
    /\ handler_calls' = Append(handler_calls, "Clear")
    /\ pc' = "h_sleep"
    /\ UNCHANGED << epd, now, use_partial, set_base, slow_cycles, writes,
                    interrupts, trap >>
    /\ UNCHANGED LoopVars /\ UNCHANGED RenderVars

\* HandlerSleep without the call of epd.sleep()
HandlerSleep_skipped ==
    /\ pc = "h_sleep"
    /\ pc' = "h_exit"
    /\ UNCHANGED << epd, now, use_partial, set_base, slow_cycles, writes,
                    interrupts, trap, panel, calls, handler_calls >>
    /\ UNCHANGED LoopVars /\ UNCHANGED RenderVars

\* line 363: epd.sleep()
HandlerSleep ==
    /\ pc = "h_sleep"
    /\ panel' = epd_sleep(panel)
    /\ calls' = Push(calls, "sleep")
    /\ handler_calls' = Append(handler_calls, "sleep")
    /\ pc' = "h_exit"
    /\ UNCHANGED << epd, now, use_partial, set_base, slow_cycles, writes,
                    interrupts, trap >>
    /\ UNCHANGED LoopVars /\ UNCHANGED RenderVars

\* line 364: epdconfig.module_exit(cleanup=True), and main() returns
HandlerExit ==
    /\ pc = "h_exit"
    /\ panel' = module_exit(panel)
    /\ calls' = Push(calls, "module_exit")
    /\ handler_calls' = Append(handler_calls, "module_exit")
    /\ pc' = "exit_clean"
    /\ UNCHANGED << epd, now, use_partial, set_base, slow_cycles, writes,
                    interrupts, trap >>
    /\ UNCHANGED LoopVars /\ UNCHANGED RenderVars

\* an adapter, font or image call inside the try block raises an Exception,
\* caught at line 366
RaiseError ==
    /\ pc \in RaisingPcs
    /\ pc' = "except_exc"
    /\ trap' = [trap EXCEPT !.raised_at = pc]
    /\ UNCHANGED << epd, now, panel, calls, use_partial, set_base, slow_cycles,
                    writes, handler_calls, interrupts >>
    /\ UNCHANGED LoopVars /\ UNCHANGED RenderVars

\* lines 367-369: the error and its traceback are logged and main() returns
LogError ==
    /\ pc = "except_exc"
    /\ pc' = "exit_error"
    /\ UNCHANGED << epd, now, panel, calls, use_partial, set_base, slow_cycles,
                    writes >>
    /\ UNCHANGED LoopVars /\ UNCHANGED RenderVars /\ UNCHANGED ExitVars

\* what get_smart_stats can return in cycle number t (the base image is 0)
SamplesAt(t) == IF t < SmartCycles THEN SmartSamples ELSE { None }

\* how long the sampling of one cycle can take
SampleSeconds ==
    { FastSample } \cup (IF slow_cycles < MaxSlow THEN { SlowSample } ELSE {})

Next ==
    \/ Construct
    \/ InitPanel
    \/ InitialClear
    \/ LoadFonts
    \/ \E stats \in SamplesAt(tick), d \in SampleSeconds : RenderSample(stats, d)
    \/ RenderDraw
    \/ Sleep
    \/ PartialTick
    \/ FullTick
    \/ FullFast
    \/ Interrupt
    \/ HandlerInit
    \/ HandlerClear
    \/ HandlerSleep
    \/ HandlerExit
    \/ RaiseError
    \/ LogError

Spec == Init /\ [][Next]_vars

---------------------------------------------------------------------------
(* calculate_deltas and update_smart_history applied to bounded inputs *)

\* the samples recorded into the history, and those looked up against it
RecordSamples == { None, EmptyDict, StatsA, StatsB }
QuerySamples == { None, EmptyDict, StatsA, StatsC }

\* the hours of day at which the sparse histories are recorded
RecordHours == { 0, 1, 2, 5, 10, 11, 12, 17, 22, 23 }

\* the sample of hour h of a day in which every hour is recorded
DayStats(h) == [Load_Cycle_Count |-> 100 + 3 * h, Start_Stop_Count |-> 10 + h]

MainIdle == << pc, epd, update_count, now, use_partial, set_base, panel, calls,
               handler_calls, interrupts, slow_cycles, trap, tick, woke,
               writes >>

InitCalc ==
    /\ pc = "harness"
    /\ epd = "unbound"
    /\ update_count = 0
    /\ now = 0
    /\ smart_stats_history = [h \in {} |-> None]
    /\ recorded_at = [h \in {} |-> 0]
    /\ smart_stats = None
    /\ current_hour = NoHour
    /\ load_delta = None
    /\ start_delta = None
    /\ baseline = [hour |-> NoHour, written |-> NoHour, looked_up |-> NoHour,
                   populated |-> {}]
    /\ use_partial = TRUE
    /\ set_base = FALSE
    /\ panel = BlankPanel
    /\ calls = << >>
    /\ handler_calls = << >>
    /\ interrupts = 0
    /\ slow_cycles = 0
    /\ trap = [interrupted_at |-> "none", raised_at |-> "none"]
    /\ tick = 0
    /\ woke = NoTime
    /\ writes = [tick |-> 0, mode |-> "none", prev_full |-> 0, last_full |-> 0]

\* update_smart_history(stats, hour) on a history of at most MaxPopulated
\* buckets
RecordStep(stats, hour) ==
    /\ pc = "harness"
    /\ Cardinality((DOMAIN smart_stats_history) \cup {hour}) <= MaxPopulated
    /\ smart_stats_history' = update_smart_history(stats, hour)
    /\ recorded_at' = StampBucket(stats, hour, 0)
    /\ UNCHANGED << smart_stats, current_hour, load_delta, start_delta,
                    baseline >>
    /\ UNCHANGED MainIdle

\* update_smart_history(DayStats(hour), hour) for the hours of a day in turn,
\* from hour 0
RecordDay ==
    /\ pc = "harness"
    /\ LET hour == Cardinality(DOMAIN smart_stats_history)
       IN  /\ hour < HoursPerDay
           /\ DOMAIN smart_stats_history = 0 .. (hour - 1)
           /\ \A h \in DOMAIN smart_stats_history :
                  smart_stats_history[h] = DayStats(h)
           /\ smart_stats_history' = update_smart_history(DayStats(hour), hour)
           /\ recorded_at' = StampBucket(DayStats(hour), hour, 0)
    /\ UNCHANGED << smart_stats, current_hour, load_delta, start_delta,
                    baseline >>
    /\ UNCHANGED MainIdle

\* CalcStep with the baseline bucket taken out of the history (dict.pop)
CalcStep_consuming(stats, hour) ==
    /\ pc = "harness"
    /\ pc' = "calculated"
    /\ smart_stats' = stats
    /\ current_hour' = hour
    /\ load_delta' = calculate_deltas(stats, hour)[1]
    /\ start_delta' = calculate_deltas(stats, hour)[2]
    /\ baseline' = LookupInfo(stats, hour, 0)
    /\ smart_stats_history' =
           [h \in (DOMAIN smart_stats_history) \ { baseline'.hour } |->
               smart_stats_history[h]]
    /\ UNCHANGED << recorded_at, epd, update_count, now,
                    use_partial, set_base, panel, calls, handler_calls,
                    interrupts, slow_cycles, trap, tick, woke, writes >>

\* calculate_deltas(stats, hour) on the history as it stands
CalcStep(stats, hour) ==
    /\ pc = "harness"
    /\ pc' = "calculated"
    /\ smart_stats' = stats
    /\ current_hour' = hour
    /\ load_delta' = calculate_deltas(stats, hour)[1]
    /\ start_delta' = calculate_deltas(stats, hour)[2]
    /\ baseline' = LookupInfo(stats, hour, 0)
    /\ UNCHANGED << smart_stats_history, recorded_at, epd, update_count, now,
                    use_partial, set_base, panel, calls, handler_calls,
                    interrupts, slow_cycles, trap, tick, woke, writes >>

NextCalc ==
    \/ \E stats \in RecordSamples, hour \in RecordHours : RecordStep(stats, hour)
    \/ RecordDay
    \/ \E stats \in QuerySamples \cup { DayStats(h) : h \in { 0, 23 } },
          hour \in Hours : CalcStep(stats, hour)

SpecCalc == InitCalc /\ [][NextCalc]_vars

---------------------------------------------------------------------------
(* Properties of the refresh scheduler and of the exits of main() *)

\* C1 as stated: ticks 1..59 of the monitoring loop write through the partial
\* path and tick 60 is the first that writes through the full path.
C1_FirstFullAtTick60 ==
    /\ (writes.tick \in 1 .. (FullRefreshEvery - 1) => writes.mode = "partial")
    /\ (writes.tick = FullRefreshEvery => writes.mode = "full")

\* C1 amended: ticks 1..60 of the monitoring loop write through the partial
\* path and tick 61 is the first that writes through the full path.
C1_FirstFullAtTick61 ==
    /\ (writes.tick \in 1 .. FullRefreshEvery => writes.mode = "partial")
    /\ (writes.tick = FullRefreshEvery + 1 => writes.mode = "full")
    /\ (writes.tick \in 0 .. FullRefreshEvery => writes.last_full = 0)

C1_Witness ==
    /\ writes.tick = FullRefreshEvery + 1
    /\ writes.mode = "full"
    /\ writes.prev_full = 0

\* C2: the tick that follows a full-mode tick writes through the partial
\* path, and two consecutive full-mode ticks are exactly 60 ticks apart.
C2_FullRefreshOneCycleEvery60 ==
    /\ (writes.last_full > 0 /\ writes.tick = writes.last_full + 1
            => writes.mode = "partial")
    /\ (writes.prev_full > 0
            => writes.last_full - writes.prev_full = FullRefreshEvery)
    /\ (writes.mode = "full" => writes.tick = writes.last_full)

C2_Witness ==
    /\ writes.prev_full > 0
    /\ writes.tick = writes.last_full + 1
    /\ writes.mode = "partial"
    /\ interrupts = 0
    /\ trap.raised_at = "none"

\* C3 as stated: whenever one interrupt arrived inside the try block of main()
\* (INIT, the sleep, a render cycle) and no other did, the process has ended
\* only with the panel cleared, asleep and its I/O resource released.
C3_InterruptLeavesPanelSafe ==
    (pc \in EndPcs /\ trap.interrupted_at \in TryPcs /\ interrupts = 1)
        => /\ panel.content = "blank"
           /\ panel.ctrl = "sleep"
           /\ panel.released

\* C4 as stated: when an exception other than the interrupt was raised in a
\* render/draw cycle, the process has exited only after the shutdown sequence
\* (re-initialize, full clear, sleep, release) ran exactly once.
C4_ErrorRunsShutdownOnce ==
    (pc = "exit_error" /\ trap.raised_at = "render_draw")
        => handler_calls = << "init", "Clear", "sleep", "module_exit" >>

---------------------------------------------------------------------------
(* Properties of the baseline history and of the deltas *)

\* both deltas of the last cycle are reported
DeltasReported == load_delta # None /\ start_delta # None

\* neither delta of the last cycle is reported
DeltasNone == load_delta = None /\ start_delta = None

\* C5 as stated: whenever the lookup used the bucket of the current hour, that
\* bucket had been written in the same hour of the previous day.
C5_CurrentHourBucketIsYesterday ==
    (baseline.hour # NoHour /\ baseline.hour = current_hour)
        => baseline.written = baseline.looked_up - HoursPerDay

\* C6 as stated: deltas are reported only if, at the lookup, some populated
\* bucket other than the bucket of the current hour exists; otherwise both
\* deltas are None.
C6_DeltasNeedOtherBucket ==
    /\ (load_delta # None \/ start_delta # None)
           => (baseline.populated \ { current_hour }) # {}
    /\ DeltasReported \/ DeltasNone

\* C6 amended: deltas are reported only if, at the lookup, some populated
\* bucket exists (the bucket of the current hour included); when no bucket is
\* populated, and when the sample is unavailable or empty, both are None.
C6_DeltasNeedSomeBucket ==
    /\ (load_delta # None \/ start_delta # None)
           <=> (Truthy(smart_stats) /\ baseline.populated # {})
    /\ DeltasReported \/ DeltasNone

C6_Witness ==
    /\ DeltasReported
    /\ baseline.populated = { current_hour }
    /\ pc = "render_draw"


\* the differences calculate_deltas is to return against the stats prev
ExactDeltas(current_stats, prev) ==
    << PyInt(Get(current_stats, "Load_Cycle_Count", 0)
               - Get(prev, "Load_Cycle_Count", 0)),
       PyInt(Get(current_stats, "Start_Stop_Count", 0)
               - Get(prev, "Start_Stop_Count", 0)) >>

\* the bucket of the history that serves as baseline for hour h: bucket h if
\* populated, else the populated bucket (h - i) mod 24 of largest i in 1..23
FurthestBack(h) ==
    LET steps == { i \in 1 .. 23 :
                     (h - i) % HoursPerDay \in DOMAIN smart_stats_history }
        far == CHOOSE i \in steps : \A j \in steps : j <= i
    IN  (h - far) % HoursPerDay

SpecBaseline(h) ==
    IF h \in DOMAIN smart_stats_history THEN h ELSE FurthestBack(h)

\* C7 as stated: for every current attribute set (the empty one included) and
\* every baseline, the deltas are the exact signed differences, a missing
\* counter read as 0; they are None only if the current set or the baseline is
\* absent.
C7_ExactDeltasForEverySet ==
    pc = "calculated" =>
        IF smart_stats = None \/ DOMAIN smart_stats_history = {}
        THEN DeltasNone
        ELSE << load_delta, start_delta >> =
                 ExactDeltas(smart_stats,
                             smart_stats_history[SpecBaseline(current_hour)])

\* C7 amended: for every non-empty current attribute set and every baseline,
\* the deltas are the exact signed differences, a missing counter read as 0,
\* without clamping; if the current set is absent or empty, or the baseline is
\* absent, both are None.
C7_ExactDeltasForNonEmptySet ==
    pc = "calculated" =>
        IF ~Truthy(smart_stats) \/ DOMAIN smart_stats_history = {}
        THEN DeltasNone
        ELSE << load_delta, start_delta >> =
                 ExactDeltas(smart_stats,
                             smart_stats_history[SpecBaseline(current_hour)])

C7_Witness ==
    /\ pc = "calculated"
    /\ DeltasReported
    /\ load_delta.int < 0
    /\ start_delta.int > 0
    /\ "Start_Stop_Count" \notin DOMAIN smart_stats_history[baseline.hour]

\* C8: when the bucket of the queried hour h is empty and another bucket is
\* populated, the baseline is the populated bucket (h - i) mod 24 of largest i
\* in 1..23, and the deltas are taken against it.
C8_FallbackTakesFurthestBack ==
    ( /\ pc = "calculated"
      /\ Truthy(smart_stats)
      /\ current_hour \notin DOMAIN smart_stats_history
      /\ DOMAIN smart_stats_history # {} )
        => /\ baseline.hour = FurthestBack(current_hour)
           /\ << load_delta, start_delta >> =
                  ExactDeltas(smart_stats,
                              smart_stats_history[FurthestBack(current_hour)])
           /\ (DOMAIN smart_stats_history = { 5 } => baseline.hour = 5)

C8_Witness ==
    /\ pc = "calculated"
    /\ current_hour = 10
    /\ DOMAIN smart_stats_history = { 2, 5 }
    /\ smart_stats_history[2] # smart_stats_history[5]
    /\ baseline.hour = 2
    /\ load_delta = PyInt(Get(smart_stats, "Load_Cycle_Count", 0)
                            - smart_stats_history[2]["Load_Cycle_Count"])
    /\ load_delta # PyInt(Get(smart_stats, "Load_Cycle_Count", 0)
                            - smart_stats_history[5]["Load_Cycle_Count"])

\* C9: when all 24 buckets are populated, the lookup for any hour h uses the
\* bucket at h itself and the deltas are taken against it.
C9_FullHistoryUsesOwnBucket ==
    ( /\ pc = "calculated"
      /\ Truthy(smart_stats)
      /\ DOMAIN smart_stats_history = Hours )
        => /\ baseline.hour = current_hour
           /\ << load_delta, start_delta >> =
                  ExactDeltas(smart_stats, smart_stats_history[current_hour])

C9_Witness ==
    /\ pc = "calculated"
    /\ DOMAIN smart_stats_history = Hours
    /\ current_hour = 23
    /\ baseline.hour = 23
    /\ smart_stats = DayStats(0)
    /\ load_delta = PyInt(0 - 69)

\* C10: a cycle whose SMART sample is None computes both deltas as None and
\* leaves every bucket of the history as it was, and its draw puts the
\* "SMART N/A" line on the panel instead of the delta lines.
C10_SmartUnavailableCycle ==
    [][ /\ ( /\ pc = "render_sample" /\ pc' = "render_draw"
             /\ smart_stats' = None )
            => /\ load_delta' = None
               /\ start_delta' = None
               /\ smart_stats_history' = smart_stats_history
        /\ ( /\ pc = "render_draw" /\ pc' \in { "loop_sleep", "full_fast" }
             /\ smart_stats = None )
            => panel'.smart = << [text |-> "SMART N/A"] >> ]_vars

C10_Witness ==
    /\ pc = "loop_sleep"
    /\ tick = 2
    /\ smart_stats = None
    /\ DOMAIN smart_stats_history # {}
    /\ panel.smart = << [text |-> "SMART N/A"] >>
    /\ panel.write = "partial"

---------------------------------------------------------------------------
(* Properties of a cycle whose SMART read fails, of INIT, of the shutdown
   and of the full refresh *)

\* the write path the scheduler selected for the cycle being rendered
ScheduledPath ==
    IF tick = 0 THEN "base"
    ELSE IF update_count % FullRefreshEvery = 0 /\ update_count > 0 THEN "full"
    ELSE "partial"

\* C11: a cycle whose SMART read fails goes on to its draw with the history
\* and the tick counter untouched, writes the panel through the path the
\* scheduler selected, and advances update_count and returns to the sleep as
\* any other cycle does.
C11_SmartFailureAffectsOneCycle ==
    [][ /\ ( /\ pc = "render_sample" /\ pc' # "h_init"
             /\ smart_stats' = None )
            => /\ pc' = "render_draw"
               /\ smart_stats_history' = smart_stats_history
               /\ recorded_at' = recorded_at
               /\ update_count' = update_count
               /\ tick' = tick
        /\ ( /\ pc = "render_draw" /\ pc' \notin { "h_init", "except_exc" }
             /\ smart_stats = None )
            => /\ panel'.write = ScheduledPath
               /\ writes'.tick = tick
               /\ pc' = IF ScheduledPath = "full" THEN "full_fast"
                        ELSE "loop_sleep"
               /\ update_count' = IF ScheduledPath = "partial"
                                  THEN update_count + 1 ELSE update_count
               /\ smart_stats_history' = smart_stats_history
        /\ ( /\ pc = "full_fast" /\ pc' \notin { "h_init", "except_exc" } )
            => /\ pc' = "loop_sleep"
               /\ update_count' = update_count + 1 ]_vars

C11_Witness ==
    /\ pc = "render_draw"
    /\ tick = 3
    /\ update_count = 2
    /\ writes.tick = 2
    /\ writes.mode = "partial"
    /\ panel.smart = << [text |-> "SMART N/A"] >>
    /\ Truthy(smart_stats)
    /\ load_delta # None
    /\ load_delta.int # 0
    /\ baseline.written < baseline.looked_up

InitCalls == << "init", "Clear", "displayPartBaseImage" >>

\* C12: before the first partial write main() has called, in this order,
\* epd.init(), epd.Clear() and one base-image write, and no full-mode write;
\* the first write of the loop is partial.
C12_InitOrder ==
    /\ (writes.mode = "none" /\ handler_calls = << >>)
           => calls \in { << >>, << "init" >>, << "init", "Clear" >> }
    /\ (writes.mode = "base" /\ handler_calls = << >>)
           => (calls = InitCalls /\ writes.tick = 0)
    /\ (writes.tick = 1 /\ handler_calls = << >>)
           => /\ writes.mode = "partial"
              /\ calls = Append(InitCalls, "displayPartial")
              /\ writes.last_full = 0
    /\ writes.tick = 0 => writes.mode \in { "none", "base" }
    /\ panel.write = writes.mode

C12_Witness ==
    /\ writes.tick = 1
    /\ writes.mode = "partial"
    /\ pc = "loop_sleep"
    /\ calls = << "init", "Clear", "displayPartBaseImage", "displayPartial" >>
    /\ panel.content = "image"

ShutdownSteps == << "init", "Clear", "sleep", "module_exit" >>

IsPrefix(a, b) == Len(a) <= Len(b) /\ a = SubSeq(b, 1, Len(a))

\* the positions of the monitoring loop, lines 340-357
InLoop(at) ==
    /\ at \in { "loop_sleep", "loop_check", "render_sample", "render_draw",
                "full_fast" }
    /\ writes.mode # "none"

\* C13: the handler makes its calls in the order init, Clear, sleep,
\* module_exit, none twice; when a single interrupt arrived in the monitoring
\* loop the process ends with all four made; and once the handler runs or the
\* process has ended there is no further tick, sample or panel write.
C13_ShutdownOrderAndTerminal ==
    /\ [] ( /\ IsPrefix(handler_calls, ShutdownSteps)
            /\ (pc = "exit_clean" => handler_calls = ShutdownSteps)
            /\ ( /\ pc \in EndPcs /\ interrupts = 1
                 /\ InLoop(trap.interrupted_at) )
                => /\ pc = "exit_clean"
                   /\ handler_calls = ShutdownSteps
                   /\ panel.content = "blank"
                   /\ panel.ctrl = "sleep"
                   /\ panel.released )
    /\ [][ (pc \in HandlerPcs \cup EndPcs)
             => /\ pc' \in HandlerPcs \cup EndPcs
                /\ tick' = tick
                /\ update_count' = update_count
                /\ writes' = writes
                /\ panel'.write = panel.write
                /\ smart_stats_history' = smart_stats_history
                /\ (pc \in EndPcs => panel' = panel) ]_vars

C13_Witness ==
    /\ pc = "exit_clean"
    /\ interrupts = 1
    /\ trap.interrupted_at = "loop_sleep"
    /\ tick = 2
    /\ handler_calls = << "init", "Clear", "sleep", "module_exit" >>
    /\ panel.ctrl = "sleep"

\* the k-th most recent adapter call, "" if there is none in the window
CallBack(k) == IF Len(calls) >= k THEN calls[Len(calls) - k + 1] ELSE ""

\* C14: a full-mode draw directly follows epd.init(), epd.init_fast()
\* directly follows the full-mode draw, and from then until the next draw the
\* panel is in fast-update mode, so the partial write after a full refresh
\* follows init, display, init_fast.
C14_FullRefreshSequence ==
    /\ CallBack(1) = "display" => CallBack(2) = "init"
    /\ CallBack(1) = "init_fast"
           => (CallBack(2) = "display" /\ CallBack(3) = "init")
    /\ ( /\ writes.mode = "full"
         /\ pc \in { "loop_sleep", "loop_check", "render_sample",
                     "render_draw" } )
           => (panel.ctrl = "init_fast" /\ CallBack(1) = "init_fast")
    /\ ( /\ CallBack(1) = "displayPartial"
         /\ writes.last_full > 0 /\ writes.tick = writes.last_full + 1 )
           => /\ CallBack(2) = "init_fast"
              /\ CallBack(3) = "display"
              /\ CallBack(4) = "init"
    /\ (writes.mode = "full" /\ pc = "full_fast") => CallBack(1) = "display"

C14_Witness ==
    /\ writes.tick = FullRefreshEvery + 2
    /\ writes.mode = "partial"
    /\ calls = << "init", "display", "init_fast", "displayPartial" >>
    /\ panel.ctrl = "init_fast"

\* C15 as stated: at every partial write of the monitoring loop the most
\* recent controller initialisation was epd.init_fast().
C15_PartialWritesInFastMode ==
    (writes.mode = "partial" /\ CallBack(1) = "displayPartial")
        => panel.ctrl = "init_fast"

---------------------------------------------------------------------------
(* Properties of the order of lookup and record, of the record, of the
   purity of the lookup, of the tick alignment and of the reach of the scan *)

\* the step of render_display from the sampling to the image
SampleStep == pc = "render_sample" /\ pc' = "render_draw"

\* C16: the deltas of a cycle are those of its sample against the history as
\* it stood before the cycle recorded anything: None when that history was
\* empty, never the difference of the sample with itself.
C16_LookupBeforeRecord ==
    [][ SampleStep =>
          IF Truthy(smart_stats') /\ DOMAIN smart_stats_history # {}
          THEN << load_delta', start_delta' >> =
                   ExactDeltas(smart_stats',
                               smart_stats_history[SpecBaseline(current_hour')])
          ELSE load_delta' = None /\ start_delta' = None ]_vars

C16_Witness ==
    /\ pc = "render_draw"
    /\ tick = 1
    /\ baseline.hour = current_hour
    /\ smart_stats_history[current_hour] = smart_stats
    /\ load_delta = PyInt(2)
    /\ start_delta = PyInt(0 - 2)

\* the history after the step holds the sample at the bucket of the cycle's
\* hour and is otherwise what it was
StoredAtHour ==
    /\ current_hour' \in DOMAIN smart_stats_history'
    /\ smart_stats_history'[current_hour'] = smart_stats'
    /\ \A h \in Hours \ { current_hour' } :
           /\ h \in DOMAIN smart_stats_history'
                  <=> h \in DOMAIN smart_stats_history
           /\ h \in DOMAIN smart_stats_history
                  => smart_stats_history'[h] = smart_stats_history[h]

\* C17 as stated: every attribute set the SMART source returns, the one
\* without any counter included, is stored at the bucket of the hour,
\* replacing its prior value, the other 23 buckets unchanged.
C17_RecordStoresEverySet ==
    [][ (SampleStep /\ smart_stats' # None) => StoredAtHour ]_vars

\* C17 amended: every non-empty attribute set is stored at the bucket of the
\* hour, replacing its prior value, the other 23 buckets unchanged; an empty
\* attribute set, like an unavailable one, leaves the whole history unchanged.
C17_RecordStoresNonEmptySet ==
    [][ SampleStep =>
          IF Truthy(smart_stats')
          THEN StoredAtHour
          ELSE smart_stats_history' = smart_stats_history ]_vars

C17_Witness ==
    /\ pc = "render_draw"
    /\ tick = 3
    /\ Cardinality(DOMAIN smart_stats_history) = 2
    /\ baseline.hour = current_hour
    /\ smart_stats_history[current_hour] = smart_stats
    /\ load_delta # None
    /\ load_delta.int # 0

\* C18: calculate_deltas leaves the history as it found it, on the
\* current-hour path, the fallback path, with no baseline and with no sample.
C18_LookupLeavesHistory ==
    [][ (pc = "harness" /\ pc' = "calculated")
          => /\ smart_stats_history' = smart_stats_history
             /\ recorded_at' = recorded_at ]_vars

C18_Witness ==
    /\ pc = "calculated"
    /\ DeltasReported
    /\ baseline.hour # current_hour
    /\ Cardinality(DOMAIN smart_stats_history) = 2
    /\ baseline.hour \in DOMAIN smart_stats_history

\* C19: the inter-tick sleep lasts 60 - (now mod 60) + 1 seconds, ends one
\* second past a minute boundary, lasts at least the guard offset and at most
\* 61 seconds, and ends in a later minute than the previous one did.
C19_TickAlignment ==
    [][ (pc = "loop_sleep" /\ pc' = "loop_check")
          => /\ now' - now = 60 - (now % 60) + 1
             /\ now' % 60 = GuardOffset
             /\ now' - now >= GuardOffset
             /\ now' - now <= 61
             /\ woke' = now'
             /\ woke # NoTime => (woke' \div 60) > (woke \div 60) ]_vars

C19_Witness ==
    /\ pc = "loop_check"
    /\ tick = 3
    /\ slow_cycles = 1
    /\ woke = now
    /\ now = 10 * 3600 + 24 * 60 + 1

\* C20: whenever the history holds a bucket, a lookup with a non-empty sample
\* reports both deltas, for every hour of day, against a populated bucket;
\* and no step removes a bucket from the history.
C20_PopulatedHistoryGivesDeltas ==
    /\ [] ( ( /\ pc = "calculated"
              /\ Truthy(smart_stats)
              /\ DOMAIN smart_stats_history # {} )
             => /\ DeltasReported
                /\ baseline.hour \in DOMAIN smart_stats_history )
    /\ [][ DOMAIN smart_stats_history \subseteq DOMAIN smart_stats_history'
         ]_vars

C20_Witness ==
    /\ pc = "calculated"
    /\ DOMAIN smart_stats_history = { 0 }
    /\ current_hour = 23
    /\ baseline.hour = 0
    /\ DeltasReported

====
